---------------------------- MODULE Spec2Model ----------------------------
(***************************************************************************)
(* Model of scripts/separate-snippets.ts: the tag scanner                  *)
(* (collectSnippets), the snippet normalizer (processSnippet) and the      *)
(* driver loop (main).                                                     *)
(*                                                                         *)
(* Text is modelled at the granularity the regular expressions of the      *)
(* script see it.  A line is a sequence of tokens [t, v]: t is the kind    *)
(* of the token and v its text, a sequence of characters.  A marker such   *)
(* as "[START foo]" is one token of kind "start" whose v is the captured   *)
(* name; one whitespace character is one token of kind "ws"; "//" is one   *)
(* token of kind "text".  A path is a sequence of characters.              *)
(***************************************************************************)
EXTENDS Integers, Sequences, FiniteSets, TLC

VARIABLES files, pc, idx, config, k, dirs, out, log, err, arg, ret

vars == <<files, pc, idx, config, k, dirs, out, log, err, arg, ret>>

---------------------------------------------------------------------------
(* Bounds of the model *)

MaxLines == 4

MaxFiles == 3

MaxSnippetLines == 3

MaxIndent == 2

---------------------------------------------------------------------------
(* Generic helpers *)

Range(s) == {s[i] : i \in 1..Len(s)}

SeqsUpTo(S, n) == UNION {[1..m -> S] : m \in 0..n}

Min(S) == CHOOSE x \in S : \A y \in S : x <= y

---------------------------------------------------------------------------
(* Tokens and lines *)

Tok(t, v) == [t |-> t, v |-> v]

WS == Tok("ws", <<" ">>)

CMT == Tok("text", <<"/", "/">>)

Code(c) == Tok("text", <<c>>)

EnableTok == Tok("enable", <<>>)

PrefixTok(p) == Tok("prefix", p)

StartTok(n) == Tok("start", n)

EndTok(n) == Tok("end", n)

RequireTok(x) == Tok("require", x)

ImportTok(x) == Tok("import", x)

\* line.match(RE): the position of the leftmost token of kind t, 0 for null.
Match(line, t) ==
    IF \E i \in 1..Len(line) : line[i].t = t
    THEN Min({i \in 1..Len(line) : line[i].t = t})
    ELSE 0

\* line.replace(RE, ...): only the leftmost match is replaced (no g flag).
Replace(line, t, new) ==
    LET m == Match(line, t)
    IN  IF m = 0 THEN line ELSE [line EXCEPT ![m] = new]

isBlank(line) == \A i \in 1..Len(line) : line[i].t = "ws"

\* l.length - l.trimLeft().length
indentSize(l) ==
    IF isBlank(l) THEN Len(l)
    ELSE Min({i \in 1..Len(l) : l[i].t # "ws"}) - 1

\* l.startsWith("//")
startsWithComment(l) == Len(l) >= 1 /\ l[1] = CMT

\* line.substr(n)
substr(line, n) == IF n >= Len(line) THEN <<>> ELSE SubSeq(line, n + 1, Len(line))

---------------------------------------------------------------------------
(* Names, prefixes and paths *)

DEFAULT_PREFIX == <<"modular_">>

NameA == <<"a">>

NameB == <<"b">>

Names == {NameA, NameB}

OtherPrefix == <<"p", "1">>

JsExt == <<".", "j", "s">>

PathA == <<".", "/", "a">> \o JsExt

PathAB == <<".", "/", "a", ".", "b">> \o JsExt

PathA_B == <<".", "/", "a", "-", "b">> \o JsExt

PathDA == <<".", "/", "d", "/", "a">> \o JsExt

Paths == {PathA, PathAB, PathA_B, PathDA}

\* The position of the leftmost occurrence of pat in s, 0 if there is none.
IndexOf(s, pat) ==
    LET hits == {i \in 1..(Len(s) - Len(pat) + 1) : SubSeq(s, i, i + Len(pat) - 1) = pat}
    IN  IF hits = {} THEN 0 ELSE Min(hits)

\* String.prototype.replace with a string pattern: the first occurrence only.
ReplaceFirst(s, pat, rep) ==
    LET i == IndexOf(s, pat)
    IN  IF i = 0 THEN s
        ELSE SubSeq(s, 1, i - 1) \o rep \o SubSeq(s, i + Len(pat), Len(s))

\* replace(/\./g, "-")
DotsToHyphens(s) == [i \in 1..Len(s) |-> IF s[i] = "." THEN "-" ELSE s[i]]

fileSlug(filePath) ==
    DotsToHyphens(ReplaceFirst(ReplaceFirst(filePath, JsExt, <<>>), <<".", "/">>, <<>>))

\* path.join(a, b) for relative paths without ".." or empty segments: the
\* segments joined by "/", a leading "./" dropped by normalisation.
pathJoin(a, b) ==
    LET j == a \o <<"/">> \o b
    IN  IF Len(j) >= 2 /\ j[1] = "." /\ j[2] = "/" THEN SubSeq(j, 3, Len(j)) ELSE j

SnippetsRoot == <<".", "/", "snippets">>

snippetDirOf(filePath) == pathJoin(SnippetsRoot, fileSlug(filePath))

snippetPathOf(filePath, snippetName) ==
    pathJoin(snippetDirOf(filePath), snippetName \o JsExt)

\* The directory and every ancestor of it: what mkdirSync(recursive) creates.
WithAncestors(p) == {p} \cup {SubSeq(p, 1, i - 1) : i \in {j \in 1..Len(p) : p[j] = "/"}}

---------------------------------------------------------------------------
(* The snippet map: a JS object with string keys, in insertion order *)

MapHas(map, name) == \E i \in 1..Len(map) : map[i].name = name

MapIndex(map, name) == CHOOSE i \in 1..Len(map) : map[i].name = name

MapGet(map, name) == map[MapIndex(map, name)].lines

\* map[name] = lines: an existing key keeps its position.
MapSet(map, name, lines) ==
    IF MapHas(map, name)
    THEN [map EXCEPT ![MapIndex(map, name)].lines = lines]
    ELSE Append(map, [name |-> name, lines |-> lines])

\* map[name].push(line)
MapPush(map, name, line) ==
    [map EXCEPT ![MapIndex(map, name)].lines = Append(@, line)]

---------------------------------------------------------------------------
(* collectSnippets *)

DefaultConfig == [enabled |-> FALSE, prefix |-> DEFAULT_PREFIX, map |-> <<>>]

isEnabled(lines) == \E i \in 1..Len(lines) : Match(lines[i], "enable") # 0

prefixOf(lines) ==
    LET hits == {i \in 1..Len(lines) : Match(lines[i], "prefix") # 0}
    IN  IF hits = {} THEN DEFAULT_PREFIX
        ELSE LET l == lines[Min(hits)] IN l[Match(l, "prefix")].v

UnmatchedErrorNoPath(currSnippetName, filePath) ==
    [name |-> "Error",
     message |-> << <<"Snippet ">>, currSnippetName,
                    <<" has unmatched START/END tags">> >>]

\* `Snippet ${currSnippetName} in ${filePath} has unmatched START/END tags`
UnmatchedError(currSnippetName, filePath) ==
    [name |-> "Error",
     message |-> << <<"Snippet ">>, currSnippetName, <<" in ">>, filePath,
                    <<" has unmatched START/END tags">> >>]

LoopStart == [currSnippetName |-> <<>>, inSnippet |-> FALSE, map |-> <<>>,
              thrown |-> FALSE, error |-> <<>>]

OnStartKeep(st, name) ==
    [st EXCEPT !.inSnippet = TRUE, !.currSnippetName = name,
               !.map = IF MapHas(st.map, name) THEN st.map ELSE MapSet(st.map, name, <<>>)]

\* if (startMatch) { ... }
OnStart(st, name) ==
    [st EXCEPT !.inSnippet = TRUE, !.currSnippetName = name,
               !.map = MapSet(st.map, name, <<>>)]

OnLineAlways(st, line) ==
    IF st.currSnippetName # <<>>
    THEN [st EXCEPT !.map = MapPush(st.map, st.currSnippetName, line)]
    ELSE st

\* if (inSnippet) { ... }
OnLine(st, line) ==
    IF st.inSnippet
    THEN [st EXCEPT !.map = MapPush(st.map, st.currSnippetName, line)]
    ELSE st

OnEndLenient(st, name, filePath) == [st EXCEPT !.inSnippet = FALSE]

\* if (endMatch) { ... }
OnEnd(st, name, filePath) ==
    IF name # st.currSnippetName
    THEN [st EXCEPT !.thrown = TRUE,
                    !.error = UnmatchedError(st.currSnippetName, filePath)]
    ELSE [st EXCEPT !.inSnippet = FALSE]

\* One iteration of the loop over the lines.
LoopBody(st, line, filePath) ==
    LET startMatch == Match(line, "start")
        endMatch == Match(line, "end")
        s1 == IF startMatch # 0 THEN OnStart(st, line[startMatch].v) ELSE st
        s2 == OnLine(s1, line)
    IN  IF endMatch # 0 THEN OnEnd(s2, line[endMatch].v, filePath) ELSE s2

RECURSIVE Loop(_, _, _)
Loop(st, lines, filePath) ==
    IF lines = <<>> \/ st.thrown THEN st
    ELSE Loop(LoopBody(st, Head(lines), filePath), Tail(lines), filePath)

EarlyReturnIgnored(lines) == FALSE

\* if (!config.enabled) { return config; }
EarlyReturn(lines) == ~isEnabled(lines)

collectSnippets(filePath, lines) ==
    IF EarlyReturn(lines)
    THEN [status |-> "ok", config |-> DefaultConfig]
    ELSE LET st == Loop(LoopStart, lines, filePath)
         IN  IF st.thrown
             THEN [status |-> "throw", error |-> st.error]
             ELSE [status |-> "ok",
                   config |-> [enabled |-> isEnabled(lines), prefix |-> prefixOf(lines),
                               map |-> st.map]]

---------------------------------------------------------------------------
(* processSnippet *)

\* Math.min() of no arguments
Infinity == 1000000

\* The body of the first loop: the first matching branch alone rewrites.
rewriteLine(line, snippetPrefix) ==
    IF Match(line, "require") # 0
    THEN Replace(line, "require", ImportTok(line[Match(line, "require")].v))
    ELSE IF Match(line, "start") # 0
    THEN Replace(line, "start", StartTok(snippetPrefix \o line[Match(line, "start")].v))
    ELSE IF Match(line, "end") # 0
    THEN Replace(line, "end", EndTok(snippetPrefix \o line[Match(line, "end")].v))
    ELSE line

rewriteLines(lines, snippetPrefix) ==
    [i \in 1..Len(lines) |-> rewriteLine(lines[i], snippetPrefix)]

minIndentOf(outputLines) ==
    LET nonBlankLines == {i \in 1..Len(outputLines) : ~isBlank(outputLines[i])}
    IN  IF nonBlankLines = {} THEN Infinity
        ELSE Min({indentSize(outputLines[i]) : i \in nonBlankLines})

flattenKeepBlank(outputLines) ==
    LET minIndent == minIndentOf(outputLines)
    IN  [i \in 1..Len(outputLines) |-> substr(outputLines[i], minIndent)]

\* Adjust indentation so that the lines are left aligned.
flatten(outputLines) ==
    LET minIndent == minIndentOf(outputLines)
    IN  [i \in 1..Len(outputLines) |->
            IF isBlank(outputLines[i]) THEN <<>> ELSE substr(outputLines[i], minIndent)]

\* adjustedOutputLines.findIndex((l) => !l.startsWith("//")), counted from 1:
\* 0 stands for the -1 of "no such line".
firstNonCommentOf(adjustedOutputLines) ==
    LET hits == {i \in 1..Len(adjustedOutputLines) :
                    ~startsWithComment(adjustedOutputLines[i])}
    IN  IF hits = {} THEN 0 ELSE Min(hits)

\* adjustedOutputLines.splice(i, 1)
splice1(s, i) == SubSeq(s, 1, i - 1) \o SubSeq(s, i + 1, Len(s))

preambleLines(sourceFile) ==
    << <<Tok("text", <<"// This snippet file was generated by processing the source file:">>)>>,
       <<CMT, WS, Tok("path", sourceFile)>>,
       <<CMT>>,
       <<Tok("text", <<"// To make edits to the snippets in this file, please edit the source">>)>>,
       <<>> >>

TypeError == [name |-> "TypeError", message |-> <<>>]

\* The content is the list of its lines: join("\n") loses nothing, since no
\* line holds a newline.
processSnippet(lines, sourceFile, snippetPrefix) ==
    LET outputLines == rewriteLines(lines, snippetPrefix)
        adjustedOutputLines == flatten(outputLines)
        firstNonComment == firstNonCommentOf(adjustedOutputLines)
    IN  IF firstNonComment = 0
        THEN \* outputLines[-1] is undefined, and isBlank(undefined) throws
             [status |-> "throw", error |-> TypeError]
        ELSE [status |-> "ok",
              content |-> preambleLines(sourceFile) \o
                          (IF isBlank(outputLines[firstNonComment])
                           THEN splice1(adjustedOutputLines, firstNonComment)
                           ELSE adjustedOutputLines)]

---------------------------------------------------------------------------
(* Inputs *)

LCode == <<Code("x")>>

LEnable == <<CMT, WS, EnableTok>>

LPrefix == <<CMT, WS, PrefixTok(OtherPrefix)>>

LStart(n) == <<CMT, WS, StartTok(n)>>

LEnd(n) == <<CMT, WS, EndTok(n)>>

LStartEnd(n) == <<CMT, WS, StartTok(n), WS, EndTok(n)>>

LRequire == <<RequireTok(<<"m">>)>>

\* The lines a scanned file is made of.
LineAlphabet ==
    {LCode, LEnable, LPrefix, LStart(NameA), LStart(NameB), LEnd(NameA), LEnd(NameB),
     LStartEnd(NameA)}

\* The files of the runs over several files: one without the enable marker,
\* one with one snippet, one with two snippets, a require and a prefix
\* override, and one with mismatched markers.
SampleFiles ==
    { <<LStart(NameA), LPrefix, LEnd(NameB)>>,
      <<LEnable, LStart(NameA), LCode, LEnd(NameA)>>,
      <<LEnable, LPrefix, LStart(NameB), LRequire, LEnd(NameB), LStartEnd(NameA)>>,
      <<LEnable, LStart(NameA), LCode, LEnd(NameB)>> }

Indent(n, body) == [i \in 1..n |-> WS] \o body

\* The lines processSnippet is applied to on its own.
SnippetBodies ==
    {<<>>, LCode, LStart(NameA), LEnd(NameA), LStartEnd(NameA)}

SnippetLineAlphabet == {Indent(n, b) : n \in 0..MaxIndent, b \in SnippetBodies}

NoError == [name |-> "none", message |-> <<>>]

NoArg == [lines |-> <<>>, sourceFile |-> <<>>, snippetPrefix |-> <<>>]

NoRet == [status |-> "none"]

---------------------------------------------------------------------------
(* main *)

InitSingle ==
    \E ls \in SeqsUpTo(LineAlphabet, MaxLines) :
        /\ files = <<[path |-> PathA, lines |-> ls]>>
        /\ dirs = {}

InitMulti ==
    \E n \in 0..MaxFiles :
        \E ps \in [1..n -> Paths], cs \in [1..n -> SampleFiles] :
            /\ \A i, j \in 1..n : i # j => ps[i] # ps[j]
            /\ files = [i \in 1..n |-> [path |-> ps[i], lines |-> cs[i]]]
            /\ dirs \in {{}, WithAncestors(snippetDirOf(PathA))}

InitRest ==
    /\ pc = "loop"
    /\ idx = 1
    /\ config = DefaultConfig
    /\ k = 1
    /\ out = {}
    /\ log = <<>>
    /\ err = NoError
    /\ arg = NoArg
    /\ ret = NoRet

\* const config = collectSnippets(filePath); if (!config.enabled) continue;
Scan ==
    /\ pc = "loop"
    /\ idx <= Len(files)
    /\ LET r == collectSnippets(files[idx].path, files[idx].lines)
       IN  IF r.status = "throw"
           THEN /\ pc' = "error"
                /\ err' = r.error
                /\ UNCHANGED <<config, idx>>
           ELSE /\ config' = r.config
                /\ err' = err
                /\ IF r.config.enabled
                   THEN pc' = "mkdir" /\ idx' = idx
                   ELSE pc' = "loop" /\ idx' = idx + 1
    /\ UNCHANGED <<files, k, dirs, out, log, arg, ret>>

\* if (!fs.existsSync(snippetDir)) fs.mkdirSync(snippetDir, { recursive: true });
MakeDir ==
    /\ pc = "mkdir"
    /\ LET snippetDir == snippetDirOf(files[idx].path)
       IN  IF snippetDir \notin dirs
           THEN /\ dirs' = dirs \cup WithAncestors(snippetDir)
                /\ log' = Append(log, [op |-> "mkdir", file |-> idx, path |-> snippetDir])
           ELSE UNCHANGED <<dirs, log>>
    /\ pc' = "write"
    /\ k' = 1
    /\ UNCHANGED <<files, idx, config, out, err, arg, ret>>

\* The sourceFile argument of processSnippet in main: the inner
\* `const filePath = path.join(snippetDir, ...)` shadows the loop's filePath.
headerPath(sourceFilePath, snippetPath) == snippetPath

\* One iteration of `for (const snippetName in config.map)`.
WriteSnippet ==
    /\ pc = "write"
    /\ k <= Len(config.map)
    /\ LET snippetName == config.map[k].name
           filePath == snippetPathOf(files[idx].path, snippetName)
           r == processSnippet(config.map[k].lines,
                               headerPath(files[idx].path, filePath), config.prefix)
       IN  IF r.status = "throw"
           THEN /\ pc' = "error"
                /\ err' = r.error
                /\ UNCHANGED <<k, out, log>>
           ELSE /\ out' = {o \in out : o.path # filePath}
                             \cup {[path |-> filePath, content |-> r.content]}
                /\ log' = Append(log, [op |-> "write", file |-> idx, path |-> filePath])
                /\ k' = k + 1
                /\ UNCHANGED <<pc, err>>
    /\ UNCHANGED <<files, idx, config, dirs, arg, ret>>

\* The inner loop is over: on to the next file.
EndFile ==
    /\ pc = "write"
    /\ k > Len(config.map)
    /\ pc' = "loop"
    /\ idx' = idx + 1
    /\ UNCHANGED <<files, config, k, dirs, out, log, err, arg, ret>>

\* The loop over the files is over: main returns.
Finish ==
    /\ pc = "loop"
    /\ idx > Len(files)
    /\ pc' = "done"
    /\ UNCHANGED <<files, idx, config, k, dirs, out, log, err, arg, ret>>

Next == Scan \/ MakeDir \/ WriteSnippet \/ EndFile \/ Finish

\* A run over one file, of any content within the bounds.
Init == InitSingle /\ InitRest

Spec == Init /\ [][Next]_vars

\* A run over several files.
InitFiles == InitMulti /\ InitRest

SpecFiles == InitFiles /\ [][Next]_vars

---------------------------------------------------------------------------
(* processSnippet on its own, over every bounded line sequence *)

InitProcess ==
    /\ files = <<>>
    /\ pc = "call"
    /\ idx = 1
    /\ config = DefaultConfig
    /\ k = 1
    /\ dirs = {}
    /\ out = {}
    /\ log = <<>>
    /\ err = NoError
    /\ \E ls \in SeqsUpTo(SnippetLineAlphabet, MaxSnippetLines) :
          arg = [lines |-> ls, sourceFile |-> PathA, snippetPrefix |-> DEFAULT_PREFIX]
    /\ ret = NoRet

CallProcessSnippet ==
    /\ pc = "call"
    /\ ret' = processSnippet(arg.lines, arg.sourceFile, arg.snippetPrefix)
    /\ pc' = "returned"
    /\ UNCHANGED <<files, idx, config, k, dirs, out, log, err, arg>>

NextProcess == CallProcessSnippet

SpecProcess == InitProcess /\ [][NextProcess]_vars

---------------------------------------------------------------------------
(* What the properties below are stated with.  None of this is computed by *)
(* the script: it describes a file's markers line by line.                 *)

StartOn(ls, i) == Match(ls[i], "start") # 0

EndOn(ls, i) == Match(ls[i], "end") # 0

StartName(ls, i) == ls[i][Match(ls[i], "start")].v

EndName(ls, i) == ls[i][Match(ls[i], "end")].v

CountToks(line, t) == Cardinality({j \in 1..Len(line) : line[j].t = t})

\* Lines i..j are one START n ... END n pair with no marker in between.
IsPair(ls, i, j) ==
    /\ i <= j
    /\ StartOn(ls, i) /\ EndOn(ls, j)
    /\ StartName(ls, i) = EndName(ls, j)
    /\ \A m \in (i + 1)..(j - 1) : ~StartOn(ls, m) /\ ~EndOn(ls, m)
    /\ i < j => ~EndOn(ls, i) /\ ~StartOn(ls, j)
    /\ i = j => Match(ls[i], "start") < Match(ls[i], "end")

WellFormed(ls) ==
    /\ \A i \in 1..Len(ls) : CountToks(ls[i], "start") <= 1 /\ CountToks(ls[i], "end") <= 1
    /\ \A i \in 1..Len(ls) : StartOn(ls, i) => \E j \in i..Len(ls) : IsPair(ls, i, j)
    /\ \A j \in 1..Len(ls) : EndOn(ls, j) => \E i \in 1..j : IsPair(ls, i, j)
    /\ \A i, j \in 1..Len(ls) :
          StartOn(ls, i) /\ StartOn(ls, j) /\ i # j => StartName(ls, i) # StartName(ls, j)

PairEnd(ls, i) == CHOOSE j \in i..Len(ls) : IsPair(ls, i, j)

\* The entries a well-formed file must give, in file order.
ExpectedMap(ls) ==
    LET S == {i \in 1..Len(ls) : StartOn(ls, i)}
        nth(r) == CHOOSE i \in S : Cardinality({x \in S : x <= i}) = r
    IN  [r \in 1..Cardinality(S) |->
            [name |-> StartName(ls, nth(r)), lines |-> SubSeq(ls, nth(r), PairEnd(ls, nth(r)))]]

\* The snippet name that is current once the START of line i, if any, is seen.
CurrentAt(ls, i) ==
    LET S == {m \in 1..i : StartOn(ls, m)}
    IN  IF S = {} THEN <<>> ELSE StartName(ls, CHOOSE m \in S : \A x \in S : x <= m)

MismatchOn(ls, i) == EndOn(ls, i) /\ EndName(ls, i) # CurrentAt(ls, i)

HasMismatch(ls) == \E i \in 1..Len(ls) : MismatchOn(ls, i)

FirstMismatch(ls) == Min({i \in 1..Len(ls) : MismatchOn(ls, i)})

HasEnable(ls) == \E i \in 1..Len(ls) : \E j \in 1..Len(ls[i]) : ls[i][j].t = "enable"

\* The call collectSnippets(files[f].path) has been made.
Scanned(f) == f \in 1..Len(files) /\ (f < idx \/ (f = idx /\ pc # "loop"))

\* The call collectSnippets(files[f].path) threw.
ScanThrew(f) == f = idx /\ pc = "error" /\ err.name = "Error"

\* config is what collectSnippets(files[f].path) returned.
ConfigOf(f) ==
    /\ f \in 1..Len(files)
    /\ \/ f = idx /\ pc \in {"mkdir", "write"}
       \/ f = idx /\ pc = "error" /\ err.name = "TypeError"
       \/ f = idx - 1 /\ pc \in {"loop", "done"}

LogOf(f) == {i \in 1..Len(log) : log[i].file = f}

---------------------------------------------------------------------------
(* C1: in an enabled file whose markers form well-formed, non-overlapping  *)
(* pairs, each name used once, collectSnippets does not throw and returns, *)
(* in file order, one entry per pair holding exactly the raw lines from    *)
(* the START line to the END line inclusive; lines outside every pair are  *)
(* in no entry.                                                            *)
C1_WellFormedPairsCollected ==
    \A f \in 1..Len(files) :
        LET ls == files[f].lines
        IN  HasEnable(ls) /\ WellFormed(ls) =>
              /\ ~ScanThrew(f)
              /\ ConfigOf(f) =>
                    /\ config.map = ExpectedMap(ls)
                    /\ \A e \in 1..Len(config.map) :
                          LET i == CHOOSE i \in 1..Len(ls) :
                                      StartOn(ls, i) /\ StartName(ls, i) = config.map[e].name
                              j == PairEnd(ls, i)
                          IN  /\ Len(config.map[e].lines) = j - i + 1
                              /\ Head(config.map[e].lines) = ls[i]
                              /\ config.map[e].lines[j - i + 1] = ls[j]

\* Two pairs, one of them longer than a line, and a line outside both.
C1_Witness ==
    /\ ConfigOf(1) /\ HasEnable(files[1].lines) /\ WellFormed(files[1].lines)
    /\ Len(config.map) = 2
    /\ \E e \in 1..2 : Len(config.map[e].lines) >= 2
    /\ pc = "write"

---------------------------------------------------------------------------
---------------------------------------------------------------------------
(* C4: a mismatched-tags error in the i-th file ends the run: the run is   *)
(* in the error state with no step left to take, nothing was created or    *)
(* written for the i-th or any later file, and the snippet files that      *)
(* exist are those written for the files before the i-th.                  *)
C4_MismatchIsFatal ==
    \A f \in 1..Len(files) :
        HasEnable(files[f].lines) /\ HasMismatch(files[f].lines) /\ Scanned(f) =>
            /\ pc = "error" /\ idx = f
            /\ ~ENABLED Next
            /\ \A i \in 1..Len(log) : log[i].file < f
            /\ \A o \in out : \E i \in 1..Len(log) :
                  log[i].op = "write" /\ log[i].path = o.path /\ log[i].file < f

\* The second of three files is broken; the first one has been written.
C4_Witness ==
    /\ Len(files) = 3 /\ ScanThrew(2)
    /\ HasEnable(files[3].lines)
    /\ out # {}

---------------------------------------------------------------------------
(* C5: for a file without the enable marker collectSnippets returns        *)
(* enabled = false, the default prefix and an empty map, whatever START,   *)
(* END and prefix markers the file holds, without an error, and main       *)
(* creates and writes nothing for it.                                      *)
C5_DisabledFileIgnored ==
    \A f \in 1..Len(files) :
        ~HasEnable(files[f].lines) /\ Scanned(f) =>
            /\ ~ScanThrew(f)
            /\ ConfigOf(f) =>
                  config = [enabled |-> FALSE, prefix |-> DEFAULT_PREFIX, map |-> <<>>]
            /\ LogOf(f) = {}

\* A disabled file with a prefix override and mismatched markers.
C5_Witness ==
    /\ ConfigOf(1) /\ ~HasEnable(files[1].lines)
    /\ HasMismatch(files[1].lines)
    /\ \E i \in 1..Len(files[1].lines) : Match(files[1].lines[i], "prefix") # 0
    /\ pc = "done"

---------------------------------------------------------------------------
(* C2: the provenance header of every snippet file written names the       *)
(* origin file: its second line is "// " followed by the path of the       *)
(* source file the snippet was collected from, its fifth line is the blank *)
(* separator, and the transformed body follows.                            *)
C2_HeaderNamesSourceFile ==
    \A o \in out :
        /\ Len(o.content) >= 5
        /\ o.content[5] = <<>>
        /\ \E i \in 1..Len(log) :
              /\ log[i].op = "write" /\ log[i].path = o.path
              /\ o.content[2] = <<CMT, WS, Tok("path", files[log[i].file].path)>>

---------------------------------------------------------------------------
(* C7: whenever collectSnippets returns for an enabled file, every entry   *)
(* of the map begins with the START line of its name and ends with an END  *)
(* line of the same name, so an unterminated START is never returned as a  *)
(* truncated entry.                                                        *)
C7_EntriesRunFromStartToEnd ==
    \A f \in 1..Len(files) :
        ConfigOf(f) /\ config.enabled =>
            \A e \in 1..Len(config.map) :
                LET lines == config.map[e].lines
                IN  /\ lines # <<>>
                    /\ StartOn(lines, 1) /\ StartName(lines, 1) = config.map[e].name
                    /\ EndOn(lines, Len(lines))
                    /\ EndName(lines, Len(lines)) = config.map[e].name

---------------------------------------------------------------------------
(* Regions of a file with repeated names *)

StartsOf(ls, n) == {i \in 1..Len(ls) : StartOn(ls, i) /\ StartName(ls, i) = n}

Max(S) == CHOOSE x \in S : \A y \in S : y <= x

\* Where the region opened on line s stops: its END line, the line before
\* the next START, or the end of the file.
RegionEnd(ls, s) ==
    Min({j \in s..Len(ls) : EndOn(ls, j) \/ j = Len(ls) \/ StartOn(ls, j + 1)})

\* The names in the order of their first START.
FirstAppearanceRank(ls, n) ==
    Cardinality({m \in Names : StartsOf(ls, m) # {} /\ Min(StartsOf(ls, m)) <= Min(StartsOf(ls, n))})

(* C10: when a name is opened by START more than once in an enabled file,  *)
(* that alone raises no error, and the map holds one entry for the name,   *)
(* at the position of the name's first appearance, with only the lines     *)
(* collected from the last START of the name onward.                       *)
C10_LastStartWins ==
    \A f \in 1..Len(files) :
        LET ls == files[f].lines
        IN  /\ HasEnable(ls) /\ ~HasMismatch(ls) => ~ScanThrew(f)
            /\ ConfigOf(f) /\ config.enabled =>
                  \A n \in Names :
                      Cardinality(StartsOf(ls, n)) >= 2 =>
                          LET s == Max(StartsOf(ls, n))
                          IN  /\ Cardinality({e \in 1..Len(config.map) : config.map[e].name = n}) = 1
                              /\ MapGet(config.map, n) = SubSeq(ls, s, RegionEnd(ls, s))
                              /\ config.map[FirstAppearanceRank(ls, n)].name = n

\* START a, START b, START a: a is first in the map and holds its last region.
C10_Witness ==
    /\ ConfigOf(1) /\ config.enabled
    /\ Cardinality(StartsOf(files[1].lines, NameA)) = 2
    /\ Len(config.map) = 2
    /\ config.map[1].name = NameA
    /\ Min(StartsOf(files[1].lines, NameB)) < Max(StartsOf(files[1].lines, NameA))
    /\ Min(StartsOf(files[1].lines, NameA)) < Min(StartsOf(files[1].lines, NameB))

---------------------------------------------------------------------------
(* processSnippet on its own *)

HasMarker(l) == Match(l, "start") # 0 \/ Match(l, "end") # 0

HasStartTok(l) == \E j \in 1..Len(l) : l[j].t = "start"

HasEndTok(l) == \E j \in 1..Len(l) : l[j].t = "end"

StartLinesOf(ls) == SelectSeq(ls, HasStartTok)

EndLinesOf(ls) == SelectSeq(ls, HasEndTok)

(* C6: every input line that matches the start-marker pattern with name n  *)
(* yields an output line whose start marker carries prefix + n, and every  *)
(* input line that matches the end-marker pattern with name n yields an    *)
(* output line whose end marker carries prefix + n, whatever else the line *)
(* holds.                                                                  *)
C6_EveryMarkerPrefixed ==
    pc = "returned" /\ ret.status = "ok" =>
        LET si == StartLinesOf(arg.lines)
            so == StartLinesOf(ret.content)
            ei == EndLinesOf(arg.lines)
            eo == EndLinesOf(ret.content)
        IN  /\ Len(so) = Len(si) /\ Len(eo) = Len(ei)
            /\ \A r \in 1..Len(si) :
                  so[r][Match(so[r], "start")].v =
                      arg.snippetPrefix \o si[r][Match(si[r], "start")].v
            /\ \A r \in 1..Len(ei) :
                  eo[r][Match(eo[r], "end")].v =
                      arg.snippetPrefix \o ei[r][Match(ei[r], "end")].v

---------------------------------------------------------------------------
(* C8: when every flattened line is a comment line, so that there is no    *)
(* first non-comment line, processSnippet returns normally and its output  *)
(* is the header followed by all the flattened lines.                      *)
C8_AllCommentsIsNoOp ==
    pc = "returned" /\ arg.lines # <<>> =>
        LET flat == flatten(rewriteLines(arg.lines, arg.snippetPrefix))
        IN  (\A i \in 1..Len(flat) : startsWithComment(flat[i])) =>
                /\ ret.status = "ok"
                /\ ret.content = preambleLines(arg.sourceFile) \o flat

---------------------------------------------------------------------------
(* Indents, counted token by token *)

LeadingWs(l) == Cardinality({i \in 1..Len(l) : \A j \in 1..i : l[j].t = "ws"})

AllWs(l) == LeadingWs(l) = Len(l)

(* C9: for a line sequence with a non-blank line, flattening strips        *)
(* exactly the minimum indent of the non-blank lines from each non-blank   *)
(* line and makes each blank line empty: the result has as many lines, a   *)
(* minimum indent of 0 and the same indent differences, and flattening it  *)
(* again changes nothing.  The body of the output is that result, less     *)
(* the one blank line that may be removed from it.                         *)
C9_FlattenIdempotent ==
    pc = "returned" /\ (\E i \in 1..Len(arg.lines) : ~AllWs(arg.lines[i])) =>
        LET o == rewriteLines(arg.lines, arg.snippetPrefix)
            f == flatten(o)
            N == {i \in 1..Len(o) : ~AllWs(o[i])}
            m == Min({LeadingWs(o[i]) : i \in N})
        IN  /\ Len(f) = Len(o)
            /\ \A i \in 1..Len(o) : AllWs(o[i]) => f[i] = <<>>
            /\ \A i \in N : o[i] = [j \in 1..m |-> WS] \o f[i]
            /\ \E i \in N : LeadingWs(f[i]) = 0
            /\ \A i, j \in N : LeadingWs(f[i]) - LeadingWs(f[j]) = LeadingWs(o[i]) - LeadingWs(o[j])
            /\ flatten(f) = f
            /\ ret.status = "ok" =>
                  \/ ret.content = preambleLines(arg.sourceFile) \o f
                  \/ \E i \in 1..Len(f) :
                        /\ f[i] = <<>>
                        /\ ret.content = preambleLines(arg.sourceFile) \o splice1(f, i)

\* Indents 2, 1 and a blank line of two spaces: the minimum indent is 1.
C9_Witness ==
    /\ pc = "returned" /\ ret.status = "ok"
    /\ Len(arg.lines) = 3
    /\ \E i, j, b \in 1..3 :
          /\ ~AllWs(arg.lines[i]) /\ LeadingWs(arg.lines[i]) = 2
          /\ ~AllWs(arg.lines[j]) /\ LeadingWs(arg.lines[j]) = 1
          /\ AllWs(arg.lines[b]) /\ Len(arg.lines[b]) = 2

===========================================================================
